---------------------------- MODULE Spec2Model ----------------------------
(***************************************************************************)
(* Model of the dsst-defacing-pipeline orchestration:                      *)
(*   src/src/deface.py, src/src/register.py, src/src/dsst_defacing_wf.py   *)
(*                                                                         *)
(* Strings are sequences of tokens; the characters '_', '.', '-' and '/'   *)
(* are always tokens of their own, so str.split, startswith, endswith and  *)
(* glob patterns of the code are sequence operations here.  A path is the  *)
(* sequence of its component names (every path is absolute); the file      *)
(* system is a function from the existing paths to their nodes.            *)
(***************************************************************************)
EXTENDS Naturals, Integers, Sequences, FiniteSets, TLC

\* ------------------------------------------------------------------ bounds
\* the longest list of secondary scans of a unit
MaxOthers == 2
\* the number of subject directories of the data set (driver runs)
MaxSubjects == 2

\* ----------------------------------------------------------------- strings
US == "_"
DOT == "."
DASH == "-"
SLASH == "/"

RECURSIVE Concat(_)
\* the concatenation of a sequence of strings
Concat(ss) == IF ss = <<>> THEN <<>> ELSE Head(ss) \o Concat(Tail(ss))

RECURSIVE Split(_, _)
\* str.split(d): the pieces of s between the occurrences of the delimiter d
Split(s, d) ==
    IF \A i \in 1..Len(s) : s[i] # d
    THEN <<s>>
    ELSE LET k == CHOOSE i \in 1..Len(s) : s[i] = d /\ \A j \in 1..(i-1) : s[j] # d
         IN  <<SubSeq(s, 1, k-1)>> \o Split(SubSeq(s, k+1, Len(s)), d)

RECURSIVE Join(_, _)
\* d.join(parts)
Join(parts, d) ==
    IF parts = <<>> THEN <<>>
    ELSE IF Len(parts) = 1 THEN parts[1]
    ELSE parts[1] \o <<d>> \o Join(Tail(parts), d)

StartsWith(s, pre) == Len(s) >= Len(pre) /\ SubSeq(s, 1, Len(pre)) = pre
EndsWith(s, suf) == Len(s) >= Len(suf) /\ SubSeq(s, Len(s) - Len(suf) + 1, Len(s)) = suf
Contains(s, sub) == \E i \in 1..(Len(s) - Len(sub) + 1) : SubSeq(s, i, i + Len(sub) - 1) = sub

\* ------------------------------------------------------------------- paths
Parent(p) == SubSeq(p, 1, Len(p) - 1)
NameOf(p) == p[Len(p)]
IsUnder(p, d) == Len(p) > Len(d) /\ SubSeq(p, 1, Len(d)) = d
IsAtOrUnder(p, d) == p = d \/ IsUnder(p, d)

\* str(path) of an absolute path
PathStr(p) == Concat([i \in 1..Len(p) |-> <<SLASH>> \o p[i]])

\* the components of a path string (empty components are dropped)
Components(s) == SelectSeq(Split(s, SLASH), LAMBDA c : c # <<>>)

RECURSIVE JoinPath(_, _)
\* pathlib's base.joinpath(*args): an absolute argument discards what is
\* before it, a relative one appends its components
JoinPath(base, args) ==
    IF args = <<>> THEN base
    ELSE LET a == Head(args)
         IN  IF a # <<>> /\ a[1] = SLASH
             THEN JoinPath(Components(a), Tail(args))
             ELSE JoinPath(base \o Components(a), Tail(args))

\* ------------------------------------------------------------- file system
DirNode == [t |-> "dir", d |-> <<>>]
FileNode(data) == [t |-> "file", d |-> data]
LinkNode(target) == [t |-> "link", d |-> target]

Exists(f, p) == p \in DOMAIN f
IsDir(f, p) == Exists(f, p) /\ f[p].t = "dir"

Put(f, p, node) == [q \in (DOMAIN f) \cup {p} |-> IF q = p THEN node ELSE f[q]]

\* Path.mkdir(parents=True, exist_ok=True)
Mkdir(f, p) ==
    LET new == {SubSeq(p, 1, k) : k \in 1..Len(p)} \ DOMAIN f
    IN  [q \in (DOMAIN f) \cup new |-> IF q \in new THEN DirNode ELSE f[q]]

\* shutil.rmtree(p) and rm -rf p
RemoveTree(f, p) == [q \in {r \in DOMAIN f : ~IsAtOrUnder(r, p)} |-> f[q]]

RECURSIVE RemoveAll(_, _)
RemoveAll(f, ps) ==
    IF ps = {} THEN f
    ELSE LET p == CHOOSE x \in ps : TRUE IN RemoveAll(RemoveTree(f, p), ps \ {p})

\* Path.rename(dst) of an entry and everything below it
RenameTree(f, src, dst) ==
    LET moved == {q \in DOMAIN f : IsAtOrUnder(q, src)}
        Re(q) == dst \o SubSeq(q, Len(src) + 1, Len(q))
        kept  == (DOMAIN f) \ moved
    IN  [q \in kept \cup {Re(r) : r \in moved} |->
            IF \E r \in moved : Re(r) = q
            THEN f[CHOOSE r \in moved : Re(r) = q]
            ELSE f[q]]

\* shutil.move(src, dst): into dst when dst is an existing directory
MoveTree(f, src, dst) ==
    IF IsDir(f, dst) THEN RenameTree(f, src, Append(dst, NameOf(src)))
    ELSE RenameTree(f, src, dst)

Children(f, d) == {q \in DOMAIN f : Len(q) = Len(d) + 1 /\ IsUnder(q, d)}
Descendants(f, d) == {q \in DOMAIN f : IsUnder(q, d)}


\* ------------------------------------------------------------ the data set
None == <<>>
\* what an f-string prints for a path, or for None
FStr(p) == IF p = None THEN <<"None">> ELSE PathStr(p)

NiiGz == <<DOT, "nii", DOT, "gz">>
AnatName == <<"anat">>
SubjectLabels == <<"01", "02", "03", "04">>
Subjects == {<<"sub", DASH, SubjectLabels[i]>> : i \in 1..MaxSubjects}
SessId == <<"ses", DASH, "1">>
SessIds == {SessId, <<"ses", DASH, "2">>}

\* the suffixes (with their acq- entity, if any) of the scans of a unit
PrimaryStems == {<<"T1w">>, <<"acq", DASH, "hr", US, "T1w">>}
OtherStems == {<<"T2w">>, <<"acq", DASH, "hr", US, "PDw">>, <<"FLAIR">>}

InputDir == << <<"in">> >>
OutputRoot == << <<"out">> >>

\* sess is the session's name, or the empty string of a data set without sessions
UnitDir(root, subj, sess) == root \o <<subj>> \o (IF sess # <<>> THEN <<sess>> ELSE <<>>)
ScanName(subj, sess, stem) ==
    subj \o (IF sess # <<>> THEN <<US>> \o sess ELSE <<>>) \o <<US>> \o stem \o NiiGz
ScanPath(subj, sess, stem) ==
    UnitDir(InputDir, subj, sess) \o <<AnatName, ScanName(subj, sess, stem)>>
\* filename without the extension: name.split('.')[0]
PrefixOf(name) == Split(name, DOT)[1]
SidecarName(name) == PrefixOf(name) \o <<DOT, "json">>

\* the input data set of one unit: every scan with its metadata sidecar
InputTree(subj, sess) ==
    LET anat  == UnitDir(InputDir, subj, sess) \o <<AnatName>>
        scans == {ScanName(subj, sess, st) : st \in PrimaryStems \cup OtherStems}
        dirs  == {SubSeq(anat, 1, k) : k \in 1..Len(anat)}
        files == {Append(anat, n) : n \in scans} \cup {Append(anat, SidecarName(n)) : n \in scans}
    IN  [q \in dirs \cup files |->
            IF q \in dirs THEN DirNode ELSE FileNode(<< <<"orig">>, NameOf(q) >>)]

\* sequences without repetition over S, of length at most n
RECURSIVE SeqsUpTo(_, _)
SeqsUpTo(S, n) ==
    IF n = 0 THEN {<<>>}
    ELSE LET shorter == SeqsUpTo(S, n - 1)
         IN  shorter \cup {Append(s, x) : s \in shorter, x \in S}
DistinctSeqs(S, n) == {s \in SeqsUpTo(S, n) : \A i, j \in 1..Len(s) : i # j => s[i] # s[j]}

\* the Mapping: {subjectID: {primary_t1, others}} or, with sessions,
\* {subjectID: {sessionID: {primary_t1, others}}}
KeyPrimary == <<"primary", US, "t1">>
KeyOthers == <<"others">>
MapEntry(prim, oth) == [k \in {KeyPrimary, KeyOthers} |-> IF k = KeyPrimary THEN prim ELSE oth]
SubjectMapping(sess, prim, oth) ==
    IF sess # <<>> THEN [k \in {sess} |-> MapEntry(prim, oth)] ELSE MapEntry(prim, oth)


\* ------------------------------------------------- the external programs
\* Only their exit status and the files they leave are modelled (ok is the
\* outcome of the run); an input file that does not exist makes them fail.
WorkRefacer == <<"__", "work", US, "refacer">>
WorkdirName(prefix) == WorkRefacer \o <<DOT>> \o prefix
RawFacemaskName == <<"tmp", DOT, "05", DOT, "sh", US, "t2a", US, "thr", DOT, "nii">>
ResultName == <<"tmp", DOT, "99", DOT, "result", DOT, "deface", DOT, "nii">>
QCDirName(prefix) == prefix \o <<US, "QC">>
IsFile(f, p) == Exists(f, p) /\ f[p].t = "file"

\* @afni_refacer_run -input <input> -mode_deface -no_clean -prefix <dir>/<prefix>
AfniRefacerRun(f, input, prefixStr, ok) ==
    LET pp  == Components(prefixStr)
        dir == Parent(pp)
        pre == NameOf(pp)
        wd  == Append(dir, WorkdirName(pre))
        qc  == Append(dir, QCDirName(pre))
        src == Components(input)
        f1  == Mkdir(Mkdir(f, wd), qc)
        f2  == Put(f1, Append(wd, RawFacemaskName), FileNode(<< <<"facemask4d">>, NameOf(src) >>))
        f3  == Put(f2, Append(wd, ResultName), FileNode(<< <<"defaced">>, NameOf(src) >>))
        f4  == Put(f3, Append(qc, <<"qc", DOT, "jpg">>), FileNode(<< <<"qc">>, NameOf(src) >>))
        f5  == Put(f4, Append(dir, pre \o NiiGz), FileNode(<< <<"defaced">>, NameOf(src) >>))
    IN  IF ok /\ src # <<>> /\ IsFile(f, src) /\ IsDir(f, dir) THEN f5 ELSE f

\* fslroi <fmask> <prefix> 1 1 ; fslmaths <prefix>.nii.gz -abs -binv <defacemask>
FslFacemask(f, fmask, prefix, defacemask, ok) ==
    IF ok /\ IsFile(f, fmask)
    THEN Put(Put(f, Append(Parent(prefix), NameOf(prefix) \o NiiGz), FileNode(<< <<"facemask3d">> >>)),
             defacemask, FileNode(<< <<"defacemask">> >>))
    ELSE f

\* cp <other> <copy> ; flirt ... -omat <mat> -out <reg> ; flirt -applyxfm
\* -init <mat> -in <t1_mask> ... -out <mask> ; fslmaths <other> -mas <mask> <defaced>
FslRegister(f, other, primary, copy, mat, reg, t1mask, mask, defaced, ok) ==
    LET f1 == IF IsFile(f, other) /\ IsDir(f, Parent(copy)) THEN Put(f, copy, f[other]) ELSE f
        f2 == IF ok /\ IsFile(f1, other) /\ IsFile(f1, primary) /\ IsDir(f1, Parent(mat))
              THEN Put(Put(f1, mat, FileNode(<< <<"xfm">>, NameOf(other) >>)),
                       reg, FileNode(<< <<"registered">>, NameOf(other) >>))
              ELSE f1
        f3 == IF ok /\ IsFile(f2, mat) /\ t1mask # None /\ IsFile(f2, t1mask) /\ IsFile(f2, other)
              THEN Put(f2, mask, FileNode(<< <<"mask">>, NameOf(other) >>))
              ELSE f2
        f4 == IF ok /\ IsFile(f3, other) /\ IsFile(f3, mask)
              THEN Put(f3, defaced, FileNode(<< <<"defaced">>, NameOf(other) >>))
              ELSE f3
    IN  f4

\* -------------------------------------------------------------- deface.py
\* A result is [err, f, v]: whether an exception was raised, the file
\* system left behind, and the value returned.
Res(e, f, v) == [err |-> e, f |-> f, v |-> v]

RequiredFileSuffixes == {<<"QC">>, <<"defacing", US, "pipeline", DOT, "log">>}
\* mutant: the filter forgets to spare the working directory itself
ToBeDeletedFiles_NoWorkExemption(f, workdir_path) ==
    {q \in Children(f, Parent(workdir_path)) :
        ~(\E suf \in RequiredFileSuffixes : EndsWith(NameOf(q), suf))}
ToBeDeletedFiles(f, workdir_path) ==
    {q \in Children(f, Parent(workdir_path)) :
        ~(StartsWith(NameOf(q), <<"__", "work">>)
          \/ \E suf \in RequiredFileSuffixes : EndsWith(NameOf(q), suf))}

rename_afni_workdir(f, workdir_path) ==
    LET segs == Split(NameOf(workdir_path), DOT)
        f1   == RemoveAll(f, ToBeDeletedFiles(f, workdir_path))
        new_workdir_path == Append(Parent(workdir_path), <<"workdir", US>> \o segs[2])
    IN  IF Len(segs) < 2 THEN Res(TRUE, f, None)
        ELSE IF ~Exists(f1, workdir_path) \/ Descendants(f1, new_workdir_path) # {}
             THEN Res(TRUE, f1, None)
        ELSE Res(FALSE, RenameTree(f1, workdir_path, new_workdir_path), new_workdir_path)

\* mutant: the destination is written whether it exists or not
compress_to_gz_Overwrite(f, input_file, output_file) ==
    Put(f, output_file, FileNode(<< <<"gz">> >> \o f[input_file].d))
compress_to_gz(f, input_file, output_file) ==
    IF ~Exists(f, output_file)
    THEN Put(f, output_file, FileNode(<< <<"gz">> >> \o f[input_file].d))
    ELSE f

SidecarPrefix(name) ==
    Join(SelectSeq(Concat([i \in 1..Len(Split(name, US)) |-> Split(Split(name, US)[i], DOT)]),
                   LAMBDA t : t \notin {<<"defaced">>, <<"nii">>, <<"gz">>}), US)

copy_over_sidecar(f, scan_name, input_anat_dir, output_anat_dir) ==
    LET filename == SidecarPrefix(scan_name) \o <<DOT, "json">>
        json_sidecar == Append(input_anat_dir, filename)
    IN  IF IsFile(f, json_sidecar) /\ IsDir(f, output_anat_dir)
        THEN Res(FALSE, Put(f, Append(output_anat_dir, filename), f[json_sidecar]), None)
        ELSE Res(TRUE, f, None)


WorkDirName == <<"work", US, "dir">>
DefacingQCName == <<"defacing", US, "QC">>
IsLink(f, p) == Exists(f, p) /\ f[p].t = "link"

\* mutant: symlink_to without the guard raises on a link that is there
LinkUnlessLinked_NoGuard(r, link, target) ==
    IF r.err THEN r
    ELSE IF Exists(r.f, link) THEN Res(TRUE, r.f, None)
    ELSE Res(FALSE, Put(r.f, link, LinkNode(target)), None)
\* Path.symlink_to, guarded by "if not link.is_symlink()"
LinkUnlessLinked(r, link, target) ==
    IF r.err \/ IsLink(r.f, link) THEN r
    ELSE IF Exists(r.f, link) THEN Res(TRUE, r.f, None)
    ELSE Res(FALSE, Put(r.f, link, LinkNode(target)), None)

InterestedFiles(f, defaced_anat_dir) ==
    {q \in Descendants(f, defaced_anat_dir) :
        EndsWith(NameOf(q), NiiGz) /\ \A i \in 1..Len(q) : q[i] # WorkDirName}

\* the body of vqcdeface_prep's loop for one defaced image
VqcLinks(r, bids_input_dir, defaced_img, defacing_qc_dir) ==
    LET entities == Split(PrefixOf(NameOf(defaced_img)), US)
        vqcd_subj_dir == defacing_qc_dir \o SelectSeq(entities, LAMBDA e : e # <<>>)
        f1 == Mkdir(r.f, vqcd_subj_dir)
        r1 == LinkUnlessLinked(Res(FALSE, f1, None), Append(vqcd_subj_dir, <<"defaced">> \o NiiGz),
                               defaced_img)
        found == {q \in Descendants(r1.f, bids_input_dir) : NameOf(q) = NameOf(defaced_img)}
        img == CHOOSE q \in found : TRUE
    IN  IF r.err THEN r
        ELSE IF r1.err \/ found = {} THEN Res(TRUE, r1.f, None)
        ELSE LinkUnlessLinked(r1, Append(vqcd_subj_dir, <<"orig">> \o NiiGz), img)

RECURSIVE VqcLoop(_, _, _, _)
VqcLoop(r, bids_input_dir, todo, defacing_qc_dir) ==
    IF todo = {} \/ r.err THEN r
    ELSE LET img == CHOOSE q \in todo : TRUE
         IN  VqcLoop(VqcLinks(r, bids_input_dir, img, defacing_qc_dir), bids_input_dir,
                     todo \ {img}, defacing_qc_dir)

vqcdeface_prep(f, bids_input_dir, defaced_anat_dir, bids_defaced_outdir) ==
    VqcLoop(Res(FALSE, f, None), bids_input_dir, InterestedFiles(f, defaced_anat_dir),
            Append(Parent(bids_defaced_outdir), DefacingQCName))

\* input_bids_dir / anat_dir.relative_to(bids_defaced_outdir)
InputAnatDir(input_bids_dir, anat_dir, bids_defaced_outdir) ==
    input_bids_dir \o SubSeq(anat_dir, Len(bids_defaced_outdir) + 1, Len(anat_dir))

\* the body of reorganize_into_bids' loop over the volume files
ReorgNii(r, nii_filepath, anat_dir, input_bids_dir, primary_scan, bids_defaced_outdir) ==
    LET name == NameOf(nii_filepath)
        rel_ok == IsAtOrUnder(anat_dir, bids_defaced_outdir)
        in_anat == InputAnatDir(input_bids_dir, anat_dir, bids_defaced_outdir)
        new_filename == Join(SubSeq(Split(name, US), 1, Len(Split(name, US)) - 1), US) \o NiiGz
    IN  IF r.err THEN r
        ELSE IF StartsWith(name, <<"tmp", DOT, "99", DOT, "result">>)
        THEN IF primary_scan = None \/ ~rel_ok THEN Res(TRUE, r.f, None)
             ELSE copy_over_sidecar(
                      compress_to_gz(r.f, nii_filepath, Append(anat_dir, NameOf(primary_scan))),
                      NameOf(primary_scan), in_anat, anat_dir)
        ELSE IF EndsWith(name, <<US, "defaced">> \o NiiGz)
        THEN IF ~rel_ok THEN Res(TRUE, Put(r.f, Append(anat_dir, new_filename), r.f[nii_filepath]), None)
             ELSE copy_over_sidecar(Put(r.f, Append(anat_dir, new_filename), r.f[nii_filepath]),
                                    name, in_anat, anat_dir)
        ELSE r

RECURSIVE ReorgNiiLoop(_, _, _, _, _, _)
ReorgNiiLoop(r, todo, anat_dir, input_bids_dir, primary_scan, bids_defaced_outdir) ==
    IF todo = {} \/ r.err THEN r
    ELSE LET nii == CHOOSE q \in todo : TRUE
         IN  ReorgNiiLoop(ReorgNii(r, nii, anat_dir, input_bids_dir, primary_scan, bids_defaced_outdir),
                          todo \ {nii}, anat_dir, input_bids_dir, primary_scan, bids_defaced_outdir)

\* the body of the loop that moves the intermediate directories
ReorgMove(r, dirpath, intermediate_files_dir) ==
    LET name == NameOf(dirpath)
    IN  IF r.err \/ ~Exists(r.f, dirpath) THEN r
        ELSE IF StartsWith(name, <<"workdir">>)
        THEN Res(FALSE, MoveTree(r.f, dirpath, Append(intermediate_files_dir, <<"afni", US>> \o name)), None)
        ELSE IF EndsWith(name, <<"QC">>)
        THEN IF Exists(r.f, Append(intermediate_files_dir, name)) THEN Res(TRUE, r.f, None)
             ELSE Res(FALSE, MoveTree(r.f, dirpath, intermediate_files_dir), None)
        ELSE r

RECURSIVE ReorgMoveLoop(_, _, _)
ReorgMoveLoop(r, todo, intermediate_files_dir) ==
    IF todo = {} \/ r.err THEN r
    ELSE LET d == CHOOSE q \in todo : TRUE
         IN  ReorgMoveLoop(ReorgMove(r, d, intermediate_files_dir), todo \ {d}, intermediate_files_dir)

\* whether the archival directory is deleted at the end
CleansUp(no_clean) == ~no_clean

\* the body of reorganize_into_bids' loop over the anat directories
ReorgAnatDir(r, anat_dir, input_bids_dir, primary_scan, bids_defaced_outdir, no_clean) ==
    LET niis == {q \in Descendants(r.f, anat_dir) : Contains(NameOf(q), <<"nii">>)}
        r1 == ReorgNiiLoop(r, niis, anat_dir, input_bids_dir, primary_scan, bids_defaced_outdir)
        intermediate_files_dir == Append(anat_dir, WorkDirName)
        f2 == Mkdir(r1.f, intermediate_files_dir)
        r3 == ReorgMoveLoop(Res(FALSE, f2, None), Children(f2, anat_dir), intermediate_files_dir)
        r4 == vqcdeface_prep(r3.f, input_bids_dir, anat_dir, bids_defaced_outdir)
    IN  IF r.err THEN r
        ELSE IF r1.err THEN r1
        ELSE IF r3.err THEN r3
        ELSE IF r4.err THEN r4
        ELSE IF CleansUp(no_clean) THEN Res(FALSE, RemoveTree(r4.f, intermediate_files_dir), None)
        ELSE r4

RECURSIVE ReorgAnatLoop(_, _, _, _, _, _)
ReorgAnatLoop(r, todo, input_bids_dir, primary_scan, bids_defaced_outdir, no_clean) ==
    IF todo = {} \/ r.err THEN r
    ELSE LET a == CHOOSE q \in todo : TRUE
         IN  ReorgAnatLoop(ReorgAnatDir(r, a, input_bids_dir, primary_scan, bids_defaced_outdir, no_clean),
                           todo \ {a}, input_bids_dir, primary_scan, bids_defaced_outdir, no_clean)

\* the directories reorganize_into_bids works on: rglob('anat') below
\* bids_defaced_outdir.joinpath(subj_id, sess_id), or .joinpath(subj_id)
AnatDirs(f, bids_defaced_outdir, subj_id, sess_id) ==
    LET base == IF sess_id # <<>> THEN JoinPath(bids_defaced_outdir, <<subj_id, sess_id>>)
                ELSE JoinPath(bids_defaced_outdir, <<subj_id>>)
    IN  {q \in Descendants(f, base) : NameOf(q) = AnatName}

reorganize_into_bids(f, input_bids_dir, subj_id, sess_id, primary_scan, bids_defaced_outdir, no_clean) ==
    ReorgAnatLoop(Res(FALSE, f, None), AnatDirs(f, bids_defaced_outdir, subj_id, sess_id),
                  input_bids_dir, primary_scan, bids_defaced_outdir, no_clean)


\* ------------------------------------------------------------ register.py
FacemaskPrefix(fmask_path) == Append(Parent(fmask_path), <<"afni", US, "facemask">>)
DefacemaskPath(fmask_path) == Append(Parent(fmask_path), <<"afni", US, "defacemask">> \o NiiGz)

\* what preprocess_facemask returns once its two commands have run: the
\* mask's path when the file exists, and otherwise it falls off the end of
\* the function (exists() raises no OSError for a file that is not there)
FacemaskResult(f, defacemask) == IF Exists(f, defacemask) THEN defacemask ELSE None

\* mutant: the secondary's mask is written over the working directory's face-mask
get_intermediate_filenames_SharedMask(outdir, prefix) ==
    [mat         |-> Append(outdir, prefix \o <<US, "reg", DOT, "mat">>),
     reg_out     |-> Append(outdir, prefix \o <<US, "registered">> \o NiiGz),
     mask        |-> Append(Parent(outdir), <<"afni", US, "defacemask">> \o NiiGz),
     defaced_out |-> Append(outdir, prefix \o <<US, "defaced">> \o NiiGz)]
get_intermediate_filenames(outdir, prefix) ==
    [mat         |-> Append(outdir, prefix \o <<US, "reg", DOT, "mat">>),
     reg_out     |-> Append(outdir, prefix \o <<US, "registered">> \o NiiGz),
     mask        |-> Append(outdir, prefix \o <<US, "mask">> \o NiiGz),
     defaced_out |-> Append(outdir, prefix \o <<US, "defaced">> \o NiiGz)]

\* "changing other scan name to other scan full path"
OtherFullPath(subj_dir, other) ==
    JoinPath(subj_dir, <<Split(other, US)[2], AnatName, other>>)

\* the secondary scans still to register once one has been handled,
\* whatever the outcome of its command
\* mutant: a failed command ends the loop
RestAfter_StopOnFailure(todo, ok) == IF ok THEN Tail(todo) ELSE <<>>
RestAfter(todo, ok) == Tail(todo)

\* --------------------------------------------------- deface.py, continued
\* the loop over the filename's entities that sets acq
RECURSIVE AcqLoop(_, _)
AcqLoop(entities, acq) ==
    IF entities = <<>> THEN acq
    ELSE AcqLoop(Tail(entities),
                 IF StartsWith(Head(entities), <<"acq", DASH>>)
                 THEN Split(Head(entities), DASH)[2] ELSE <<>>)
AcqOf(name) == AcqLoop(Split(name, US), <<>>)

SubjOutputDir(output_dir, subj_id, sess_id, acq) ==
    JoinPath(output_dir, <<subj_id, sess_id, AnatName, acq>>)

WorkdirList(f, subj_output_dir) ==
    {q \in Children(f, subj_output_dir) : Contains(NameOf(q), <<"work", US, "refacer">>)}

\* missing_refacer_out of the branch that found no working directory
\* mutant: the branch leaves the empty string of the other branch
MissingRefacerOut_Empty(prefix) == <<>>
MissingRefacerOut(prefix) == prefix

\* others = [str(s) for s in mapping['others'] if s != primary_t1]
OthersOf(entry) ==
    LET kept == SelectSeq(entry[KeyOthers], LAMBDA x : x # entry[KeyPrimary])
    IN  [i \in 1..Len(kept) |-> PathStr(kept[i])]

\* a command handed to the shell: the program and the arguments that matter
Cmd(tool, a, b, c) == [tool |-> tool, a |-> a, b |-> b, c |-> c]


\* =================================================== one unit's processing
VARIABLES
    fs,                      \* the file system
    cmds,                    \* the external commands issued so far, in order
    tool_failed,             \* whether some external command has failed
    pc,                      \* where deface_primary_scan is
    subj_input_dir, sess_dir, mapping_dict, mode, no_clean, nih_hpc,   \* its arguments
    primary_t1, others,      \* deface_primary_scan's locals
    primary, all_others, subj_output_dir, workdir_list, new_afni_workdir,  \* run_afni_refacer's
    t1_mask, todo,           \* register_to_primary_scan's
    missing_refacer_outputs, \* what deface_primary_scan returns
    reorganized,             \* how many times reorganize_into_bids was called
    proc,                    \* the driver processes (none while one unit is followed)
    calls                    \* the calls made of single functions, with their effects

unitVars == <<fs, cmds, tool_failed, pc, subj_input_dir, sess_dir, mapping_dict, mode, no_clean,
              nih_hpc, primary_t1, others, primary, all_others, subj_output_dir, workdir_list,
              new_afni_workdir, t1_mask, todo, missing_refacer_outputs, reorganized>>
vars == <<unitVars, proc, calls>>

BidsDefacedOutdir == Append(OutputRoot, <<"bids", US, "defaced">>)
LogsDir(output_dir) == Append(output_dir, <<"logs">>)
DefacingLog(output_dir) == Append(LogsDir(output_dir), <<"defacing", US, "pipeline", DOT, "log">>)
SubjLog(output_dir, subj_id, sess_id) ==
    Append(LogsDir(output_dir),
           subj_id \o (IF sess_id # <<>> THEN <<US>> \o sess_id ELSE <<>>) \o <<US, "defacing", DOT, "log">>)

\* utils.setup_logger: a logger writing to the file, which it creates
setup_logger(f, logfile) == IF Exists(f, logfile) THEN f ELSE Put(f, logfile, FileNode(<< <<"log">> >>))

NoneRet == <<"None">>
SubjIdOf(dir) == NameOf(dir)
SessIdOf(dir) == IF dir # None THEN NameOf(dir) ELSE <<>>
UnitEntry(mapping, subj_id, sess_id) ==
    IF sess_id = <<>> THEN mapping[subj_id] ELSE mapping[subj_id][sess_id]

Init ==
    \E subj \in {<<"sub", DASH, SubjectLabels[1]>>}, sess \in {<<>>, SessId}, nc \in BOOLEAN,
       md \in {"standard", "aggressive"}, hpc \in BOOLEAN :
      \E prim \in {None} \cup {ScanPath(subj, sess, st) : st \in PrimaryStems},
         oth \in DistinctSeqs({ScanPath(subj, sess, st) : st \in OtherStems}, MaxOthers) :
        /\ fs = Mkdir(InputTree(subj, sess), BidsDefacedOutdir)
        /\ subj_input_dir = Append(InputDir, subj)
        /\ sess_dir = IF sess # <<>> THEN InputDir \o <<subj, sess>> ELSE None
        /\ mapping_dict = [s \in {subj} |-> SubjectMapping(sess, prim, oth)]
        /\ proc = <<>>
        /\ calls = <<>>
        /\ mode = md
        /\ no_clean = nc
        /\ nih_hpc = hpc
        /\ cmds = <<>>
        /\ tool_failed = FALSE
        /\ pc = "deface_primary_scan"
        /\ primary_t1 = None
        /\ others = <<>>
        /\ primary = None
        /\ all_others = <<>>
        /\ subj_output_dir = None
        /\ workdir_list = {}
        /\ new_afni_workdir = None
        /\ t1_mask = None
        /\ todo = <<>>
        /\ missing_refacer_outputs = <<>>
        /\ reorganized = 0

argVars == <<subj_input_dir, sess_dir, mapping_dict, mode, no_clean, nih_hpc, proc, calls>>

\* deface_primary_scan up to its call of run_afni_refacer
DefacePrimaryScan ==
    /\ pc = "deface_primary_scan"
    /\ LET output_dir == BidsDefacedOutdir
           subj_id == SubjIdOf(subj_input_dir)
           sess_id == SessIdOf(sess_dir)
           entry == UnitEntry(mapping_dict, subj_id, sess_id)
       IN  /\ fs' = setup_logger(setup_logger(Mkdir(fs, LogsDir(output_dir)), DefacingLog(output_dir)),
                                 SubjLog(output_dir, subj_id, sess_id))
           /\ cmds' = IF nih_hpc THEN Append(cmds, Cmd("module", <<"load">>, <<>>, <<>>)) ELSE cmds
           /\ primary_t1' = entry[KeyPrimary]
           /\ others' = OthersOf(entry)
    /\ pc' = "run_afni_refacer"
    /\ UNCHANGED <<argVars, tool_failed, primary, all_others, subj_output_dir, workdir_list,
                   new_afni_workdir, t1_mask, todo, missing_refacer_outputs, reorganized>>

\* run_afni_refacer from its start to the end of the defacing command of
\* the first primary; with no primary at all the loop body never runs and
\* the function returns None
RunAfniRefacer ==
    /\ pc = "run_afni_refacer"
    /\ LET all_primaries == IF primary_t1 # None THEN <<primary_t1>>
                            ELSE [i \in 1..Len(others) |-> Components(others[i])]
           prim == all_primaries[1]
           dir == SubjOutputDir(BidsDefacedOutdir, SubjIdOf(subj_input_dir), SessIdOf(sess_dir),
                                AcqOf(NameOf(prim)))
           prefix == PrefixOf(NameOf(prim))
           refacer_cmd == Cmd("afni_refacer_run", FStr(primary_t1), PathStr(Append(dir, prefix)),
                              IF mode = "aggressive" THEN <<"sym">> ELSE <<>>)
       IN  /\ all_others' = IF primary_t1 # None THEN others ELSE <<>>
           /\ IF all_primaries = <<>>
              THEN /\ missing_refacer_outputs' = Append(missing_refacer_outputs, NoneRet)
                   /\ pc' = "reorganize"
                   /\ UNCHANGED <<fs, cmds, tool_failed, primary, subj_output_dir>>
              ELSE /\ primary' = prim
                   /\ subj_output_dir' = dir
                   /\ cmds' = Append(cmds, refacer_cmd)
                   /\ \E ok \in BOOLEAN :
                        /\ fs' = AfniRefacerRun(Mkdir(fs, dir), refacer_cmd.a, refacer_cmd.b, ok)
                        /\ tool_failed' = (tool_failed \/ ~ok)
                   /\ pc' = "workdir_glob"
                   /\ UNCHANGED missing_refacer_outputs
    /\ UNCHANGED <<argVars, primary_t1, others, workdir_list, new_afni_workdir, t1_mask, todo, reorganized>>

\* a working directory was found: rename_afni_workdir, then on to
\* register_to_primary_scan
WorkdirFound ==
    /\ pc = "workdir_glob"
    /\ WorkdirList(fs, subj_output_dir) # {}
    /\ workdir_list' = WorkdirList(fs, subj_output_dir)
    /\ \E w \in WorkdirList(fs, subj_output_dir) :
         LET r == rename_afni_workdir(fs, w)
         IN  /\ fs' = r.f
             /\ cmds' = Append(cmds, Cmd("rm", <<>>, <<>>, <<>>))
             /\ new_afni_workdir' = r.v
             /\ pc' = IF r.err THEN "raised" ELSE "preprocess_facemask"
    /\ UNCHANGED <<argVars, tool_failed, primary_t1, others, primary, all_others, subj_output_dir,
                   t1_mask, todo, missing_refacer_outputs, reorganized>>

\* no working directory: the primary's prefix is returned
WorkdirMissing ==
    /\ pc = "workdir_glob"
    /\ WorkdirList(fs, subj_output_dir) = {}
    /\ workdir_list' = {}
    /\ missing_refacer_outputs' =
           Append(missing_refacer_outputs, MissingRefacerOut(PrefixOf(NameOf(primary))))
    /\ pc' = "reorganize"
    /\ UNCHANGED <<argVars, fs, cmds, tool_failed, primary_t1, others, primary, all_others,
                   subj_output_dir, new_afni_workdir, t1_mask, todo, reorganized>>

\* register_to_primary_scan up to its loop: preprocess_facemask
PreprocessFacemask ==
    /\ pc = "preprocess_facemask"
    /\ LET fmask_path == Append(new_afni_workdir, RawFacemaskName)
           defacemask == DefacemaskPath(fmask_path)
       IN  /\ cmds' = Append(cmds, Cmd("facemask", PathStr(fmask_path), PathStr(defacemask), <<>>))
           /\ \E ok \in BOOLEAN :
                /\ fs' = FslFacemask(fs, fmask_path, FacemaskPrefix(fmask_path), defacemask, ok)
                /\ tool_failed' = (tool_failed \/ ~ok)
           /\ t1_mask' = FacemaskResult(fs', defacemask)
    /\ todo' = all_others
    /\ pc' = "register_loop"
    /\ UNCHANGED <<argVars, primary_t1, others, primary, all_others, subj_output_dir, workdir_list,
                   new_afni_workdir, missing_refacer_outputs, reorganized>>

\* one round of register_to_primary_scan's loop
RegisterOther ==
    /\ pc = "register_loop"
    /\ todo # <<>>
    /\ LET other == OtherFullPath(subj_input_dir, Head(todo))
           other_prefix == PrefixOf(NameOf(other))
           other_outdir == Append(new_afni_workdir, other_prefix)
           n == get_intermediate_filenames(other_outdir, other_prefix)
       IN  /\ cmds' = Append(cmds, Cmd("register", PathStr(other), FStr(t1_mask), PathStr(n.defaced_out)))
           /\ \E ok \in BOOLEAN :
                /\ fs' = FslRegister(Mkdir(fs, other_outdir), other, primary,
                                     Append(other_outdir, other_prefix), n.mat, n.reg_out,
                                     t1_mask, n.mask, n.defaced_out, ok)
                /\ tool_failed' = (tool_failed \/ ~ok)
                /\ todo' = RestAfter(todo, ok)
    /\ UNCHANGED <<argVars, pc, primary_t1, others, primary, all_others, subj_output_dir, workdir_list,
                   new_afni_workdir, t1_mask, missing_refacer_outputs, reorganized>>

\* the loop is over: register_to_primary_scan returns, and run_afni_refacer
\* returns the empty missing_refacer_out from inside its loop over the primaries
RegisterReturn ==
    /\ pc = "register_loop"
    /\ todo = <<>>
    /\ missing_refacer_outputs' = Append(missing_refacer_outputs, <<>>)
    /\ pc' = "reorganize"
    /\ UNCHANGED <<argVars, fs, cmds, tool_failed, primary_t1, others, primary, all_others,
                   subj_output_dir, workdir_list, new_afni_workdir, t1_mask, todo, reorganized>>

\* deface_primary_scan's call of reorganize_into_bids, and its return
ReorganizeIntoBids ==
    /\ pc = "reorganize"
    /\ LET r == reorganize_into_bids(fs, InputDir, PathStr(subj_input_dir),
                                     IF sess_dir # None THEN PathStr(sess_dir) ELSE <<>>,
                                     primary_t1, BidsDefacedOutdir, no_clean)
       IN  /\ fs' = r.f
           /\ pc' = IF r.err THEN "raised" ELSE "done"
    /\ reorganized' = reorganized + 1
    /\ UNCHANGED <<argVars, cmds, tool_failed, primary_t1, others, primary, all_others, subj_output_dir,
                   workdir_list, new_afni_workdir, t1_mask, todo, missing_refacer_outputs>>

Next ==
    \/ DefacePrimaryScan
    \/ RunAfniRefacer
    \/ WorkdirFound
    \/ WorkdirMissing
    \/ PreprocessFacemask
    \/ RegisterOther
    \/ RegisterReturn
    \/ ReorganizeIntoBids

Spec == Init /\ [][Next]_vars


\* ======================================================= the driver, main()
\* the arguments dsst_defacing_wf.main passes to deface.deface_primary_scan,
\* and the parameters deface_primary_scan declares (none has a default)
DriverArgs == 6
DefaceParams == 8
\* whether Python can bind a call's positional arguments to the parameters
Binds(nargs, nparams) == nargs = nparams

Perms(S) == {q \in DistinctSeqs(S, Cardinality(S)) : Len(q) = Cardinality(S)}
MergeFs(f, g) == [q \in (DOMAIN f) \cup (DOMAIN g) |-> IF q \in DOMAIN f THEN f[q] ELSE g[q]]

RECURSIVE InputTrees(_)
\* the input data set holding the given (subject, session) units
InputTrees(units) ==
    IF units = {} THEN [q \in {InputDir} |-> DirNode]
    ELSE LET u == CHOOSE x \in units : TRUE
         IN  MergeFs(InputTree(u[1], u[2]), InputTrees(units \ {u}))

HasSessions(m) == KeyPrimary \notin DOMAIN m
UnitsOfMapping(mapping) ==
    {<<sb, <<>> >> : sb \in {x \in DOMAIN mapping : ~HasSessions(mapping[x])}}
        \cup {<<sb, k>> : sb \in {x \in DOMAIN mapping : HasSessions(mapping[x])}, k \in SessIds}
EntryOf(sb, sess) == MapEntry(ScanPath(sb, sess, <<"T1w">>), << ScanPath(sb, sess, <<"T2w">>) >>)
\* what the Mapping can hold for one subject
SubjectMappings(sb) ==
    {EntryOf(sb, <<>>)} \cup {[k \in K |-> EntryOf(sb, k)] : K \in SUBSET SessIds}

SwarmFile == Append(OutputRoot, <<"defacing", US, "subject", US, "level", DOT, "swarm">>)
SwarmLogs == Append(OutputRoot, <<"swarm", US, "logs">>)
FailureReport ==
    OutputRoot \o << <<"logs">>, <<"failed", US, "afni", US, "refacer", US, "output", DOT, "txt">> >>

\* generate_mappings.crawl: the precomputed Mapping
crawl == mapping_dict

\* a process running main() with the given command line
NewProc(subj_id, sess_id, swarm, nc) ==
    [subj_id |-> subj_id, sess_id |-> sess_id, swarm |-> swarm, no_clean |-> nc, pc |-> "get_args",
     subj_sess_list |-> <<>>, called |-> 0, afni_refacer_failures |-> <<>>, written |-> {}]

\* input_dir.glob('sub-*')
SubjDirs(f) == {q \in Children(f, InputDir) : StartsWith(NameOf(q), <<"sub", DASH>>)}
\* the order in which glob yields entries: the directory's own order, which
\* the program does not choose; one order per set of entries
GlobOrder(S) == CHOOSE q \in Perms(S) : TRUE

get_sess_dirs(subj_dir_path, keys) ==
    [i \in 1..Len(keys) |->
        IF StartsWith(keys[i], <<"ses", DASH>>) THEN Append(subj_dir_path, keys[i]) ELSE None]

\* the paths mkdir(parents=True, exist_ok=True) creates
MkdirCreated(f, p) == {SubSeq(p, 1, k) : k \in 1..Len(p)} \ DOMAIN f

idleVars == <<cmds, tool_failed, pc, subj_input_dir, sess_dir, mode, no_clean, nih_hpc, primary_t1,
              others, primary, all_others, subj_output_dir, workdir_list, new_afni_workdir, t1_mask,
              todo, missing_refacer_outputs, reorganized, calls>>

DriverInit ==
    /\ \E mapping \in [Subjects -> UNION {SubjectMappings(sb) : sb \in Subjects}], logs \in BOOLEAN :
         /\ \A sb \in Subjects : mapping[sb] \in SubjectMappings(sb)
         /\ mapping_dict = mapping
         /\ LET units == {u \in UnitsOfMapping(mapping) :
                             u[2] = <<>> \/ u[2] \in DOMAIN mapping[u[1]]}
                tree  == MergeFs(InputTrees(units), [q \in {Append(InputDir, sb) : sb \in Subjects} |-> DirNode])
            IN  fs = IF logs THEN Mkdir(tree, Append(OutputRoot, <<"logs">>)) ELSE Mkdir(tree, OutputRoot)
    /\ \E subj_id \in {<<>>} \cup Subjects, sess_id \in {<<>>, SessId}, swarm \in BOOLEAN, nc \in BOOLEAN :
         proc = [i \in {0} |-> NewProc(subj_id, sess_id, swarm, nc)]
    /\ calls = <<>>
    /\ cmds = <<>>
    /\ tool_failed = FALSE
    /\ pc = "idle"
    /\ subj_input_dir = None
    /\ sess_dir = None
    /\ mode = "standard"
    /\ no_clean = FALSE
    /\ nih_hpc = FALSE
    /\ primary_t1 = None
    /\ others = <<>>
    /\ primary = None
    /\ all_others = <<>>
    /\ subj_output_dir = None
    /\ workdir_list = {}
    /\ new_afni_workdir = None
    /\ t1_mask = None
    /\ todo = <<>>
    /\ missing_refacer_outputs = <<>>
    /\ reorganized = 0

\* get_args' check of the parsed arguments: "not args.subj_id and args.sess_id"
\* mutant: the check lets the arguments through
SessionWithoutSubject_Accepted(subj_id, sess_id) == FALSE
SessionWithoutSubject(subj_id, sess_id) == subj_id = <<>> /\ sess_id # <<>>

\* get_args: a session without a subject is rejected
GetArgs(p) ==
    /\ proc[p].pc = "get_args"
    /\ proc' = [proc EXCEPT ![p].pc =
                   IF SessionWithoutSubject(proc[p].subj_id, proc[p].sess_id) THEN "raised" ELSE "main"]
    /\ UNCHANGED <<fs, mapping_dict, idleVars>>

\* main with --swarm: start_swarm_job writes one command per subject
\* directory and submits them; each runs main() as a process of its own
StartSwarmJob(p) ==
    /\ proc[p].pc = "main"
    /\ proc[p].swarm
    /\ \E ok \in BOOLEAN :
         LET order == GlobOrder(SubjDirs(fs))
             f1 == Put(Mkdir(fs, OutputRoot), SwarmFile,
                       FileNode(<< <<"swarm">> >> \o [i \in 1..Len(order) |-> NameOf(order[i])]))
             f2 == IF Exists(f1, SwarmLogs) THEN RemoveTree(f1, SwarmLogs) ELSE f1
             touched == MkdirCreated(fs, OutputRoot) \cup {SwarmFile}
                            \cup (IF Exists(f1, SwarmLogs) THEN {SwarmLogs} ELSE {})
             jobs == [i \in 1..Len(order) |-> NewProc(NameOf(order[i]), <<>>, FALSE, proc[p].no_clean)]
         IN  /\ fs' = f2
             /\ proc' = [i \in (DOMAIN proc) \cup (IF ok THEN 1..Len(order) ELSE {}) |->
                            IF i = p
                            THEN [proc[p] EXCEPT !.pc = IF ok THEN "done" ELSE "raised",
                                                 !.written = @ \cup touched]
                            ELSE jobs[i]]
    /\ UNCHANGED <<mapping_dict, idleVars>>

\* the lists of units main can build: one per order in which dict.keys()
\* yields the keys of the subjects' entries
UnitsIn(subj_dir, keys) ==
    LET sd == get_sess_dirs(subj_dir, keys)
    IN  [i \in 1..Len(sd) |-> <<subj_dir, sd[i]>>]
SubjSessLists(f, subj_id, sess_id) ==
    LET subj_dir == Append(InputDir, subj_id)
        AllKeySeqs == UNION {Perms(DOMAIN crawl[sb]) : sb \in DOMAIN crawl}
    IN  IF subj_id # <<>> /\ sess_id = <<>>
        THEN {UnitsIn(subj_dir, keys) : keys \in Perms(DOMAIN crawl[subj_id])}
        ELSE IF subj_id # <<>> /\ sess_id # <<>>
        THEN {<< <<subj_dir, Append(subj_dir, sess_id)>> >>}
        ELSE {Concat([j \in 1..Len(GlobOrder(SubjDirs(f))) |->
                          UnitsIn(GlobOrder(SubjDirs(f))[j], keys[NameOf(GlobOrder(SubjDirs(f))[j])])]) :
                  keys \in {k \in [DOMAIN crawl -> AllKeySeqs] :
                               \A sb \in DOMAIN crawl : k[sb] \in Perms(DOMAIN crawl[sb])}}

\* main without --swarm, up to its loop over the units
MainSetup(p) ==
    /\ proc[p].pc = "main"
    /\ ~proc[p].swarm
    /\ \E l \in SubjSessLists(fs, proc[p].subj_id, proc[p].sess_id) :
         /\ fs' = Mkdir(fs, BidsDefacedOutdir)
         /\ proc' = [proc EXCEPT
               ![p].pc = "loop",
               ![p].written = @ \cup MkdirCreated(fs, BidsDefacedOutdir),
               ![p].subj_sess_list = l]
    /\ UNCHANGED <<mapping_dict, idleVars>>

\* the loop's call deface.deface_primary_scan(input_dir, subj_sess[0],
\* subj_sess[1], mapping_dict, bids_defaced_outdir, no_clean): the six
\* arguments do not bind to the eight parameters, so the call raises
\* TypeError before deface_primary_scan runs and main ends there
MainCallDeface(p) ==
    /\ proc[p].pc = "loop"
    /\ proc[p].subj_sess_list # <<>>
    /\ ~Binds(DriverArgs, DefaceParams)
    /\ proc' = [proc EXCEPT ![p].pc = "raised", ![p].called = @ + 1]
    /\ UNCHANGED <<fs, mapping_dict, idleVars>>

\* after the loop: the failure report is opened for writing
MainWriteReport(p) ==
    /\ proc[p].pc = "loop"
    /\ proc[p].subj_sess_list = <<>>
    /\ IF IsDir(fs, Parent(FailureReport))
       THEN /\ fs' = Put(fs, FailureReport, FileNode(<< <<"report">> >> \o proc[p].afni_refacer_failures))
            /\ proc' = [proc EXCEPT ![p].pc = "done", ![p].written = @ \cup {FailureReport}]
       ELSE /\ fs' = fs
            /\ proc' = [proc EXCEPT ![p].pc = "raised"]
    /\ UNCHANGED <<mapping_dict, idleVars>>

DriverNext ==
    \/ \E p \in DOMAIN proc : GetArgs(p)
    \/ \E p \in DOMAIN proc : StartSwarmJob(p)
    \/ \E p \in DOMAIN proc : MainSetup(p)
    \/ \E p \in DOMAIN proc : MainCallDeface(p)
    \/ \E p \in DOMAIN proc : MainWriteReport(p)

DriverSpec == DriverInit /\ [][DriverNext]_vars

\* ================================================================== claims
CmdsOf(tool) == SelectSeq(cmds, LAMBDA c : c.tool = tool)
Returned == pc \in {"reorganize", "done"}
UnitAnatDir == UnitDir(BidsDefacedOutdir, SubjIdOf(subj_input_dir), SessIdOf(sess_dir)) \o <<AnatName>>
OtherName(o) == NameOf(Components(o))

\* C1: for a unit with a primary scan, when the glob finds no *work_refacer*
\* entry after the defacing command, run_afni_refacer returns exactly the
\* primary's filename prefix, and no mask-derivation command, no
\* per-secondary command and no per-secondary directory exists for the unit.
C1_MissingWorkdirRecordsPrefix ==
    (Returned /\ primary_t1 # None /\ workdir_list = {}) =>
        /\ missing_refacer_outputs = << PrefixOf(NameOf(primary_t1)) >>
        /\ CmdsOf("facemask") = <<>>
        /\ CmdsOf("register") = <<>>
        /\ \A i \in 1..Len(others) :
              {q \in Descendants(fs, BidsDefacedOutdir) : NameOf(q) = PrefixOf(OtherName(others[i]))} = {}
C1_Witness ==
    /\ pc = "done" /\ primary_t1 # None /\ workdir_list = {} /\ Len(others) = 2
    /\ Len(CmdsOf("afni_refacer_run")) = 1
    /\ missing_refacer_outputs = << PrefixOf(NameOf(primary_t1)) >>

\* C2: for a unit with no primary scan and N >= 1 secondary scans, the
\* defacing tool is invoked exactly N times, once with each secondary scan
\* as its input, and no per-secondary registration command is issued.
C2_EverySecondaryDefacedAsPrimary ==
    (pc = "done" /\ primary_t1 = None /\ Len(others) >= 1) =>
        /\ Len(CmdsOf("afni_refacer_run")) = Len(others)
        /\ \A i \in 1..Len(others) :
              i <= Len(CmdsOf("afni_refacer_run")) => CmdsOf("afni_refacer_run")[i].a = others[i]
        /\ CmdsOf("register") = <<>>

\* C3: deface_primary_scan calls reorganize_into_bids exactly once, after
\* run_afni_refacer has returned, whether a working directory was found or
\* not; no run ends (or raises) without that call.
C3_ReorganizerCalledOnce ==
    /\ pc # "raised"
    /\ pc = "done" => reorganized = 1 /\ Len(missing_refacer_outputs) = 1
    /\ pc # "done" => reorganized = 0
C3_Witness ==
    /\ pc = "done" /\ reorganized = 1 /\ primary_t1 # None /\ workdir_list = {}
    /\ missing_refacer_outputs # << <<>> >>

\* C4: a secondary scan's combined command is issued only after the
\* mask-derivation step has run and has produced the face-mask.
C4_RegisterOnlyWithMask ==
    \A i \in 1..Len(cmds) :
        cmds[i].tool = "register" =>
            /\ \E j \in 1..(i - 1) : cmds[j].tool = "facemask"
            /\ t1_mask # None
            /\ cmds[i].b # FStr(None)

\* C5: when the face-mask file does not exist after the mask-derivation
\* commands, an error propagates out of register_to_primary_scan and no
\* per-secondary command is issued.
C5_MissingMaskRaises ==
    (CmdsOf("facemask") # <<>> /\ t1_mask = None) =>
        (pc = "raised" /\ CmdsOf("register") = <<>>)

\* C6: whichever of the secondaries' commands fail, the combined command is
\* issued exactly once for every secondary of the list, in the list's
\* order, and reorganize_into_bids is still called afterwards.
C6_EverySecondaryRegisteredOnce ==
    /\ (Returned /\ workdir_list # {}) =>
          [i \in 1..Len(CmdsOf("register")) |-> CmdsOf("register")[i].a] = all_others
    /\ (pc = "done" /\ workdir_list # {}) => reorganized = 1
    /\ pc # "raised"
C6_Witness ==
    /\ pc = "done" /\ Len(all_others) = 2 /\ reorganized = 1
    /\ Len(CmdsOf("register")) = 2
    /\ ~Exists(fs, Components(CmdsOf("register")[1].c))
    /\ Exists(fs, Components(CmdsOf("register")[2].c))

QCDirOf(name) ==
    Append(OutputRoot, DefacingQCName) \o Split(PrefixOf(name), US)

\* C7: after a run in which every external tool succeeded, every secondary
\* scan of a unit with a primary has its defaced output under its original
\* name in the unit's anat directory of the output tree, and a QC directory
\* with a defaced.nii.gz link to that output and an orig.nii.gz link to the
\* original scan.
C7_SecondariesDefacedAndLinked ==
    (pc = "done" /\ primary_t1 # None /\ others # <<>> /\ ~tool_failed) =>
        \A i \in 1..Len(others) :
            LET name == OtherName(others[i])
                out  == Append(UnitAnatDir, name)
                dl   == Append(QCDirOf(name), <<"defaced">> \o NiiGz)
                ol   == Append(QCDirOf(name), <<"orig">> \o NiiGz)
            IN  /\ IsFile(fs, out)
                /\ IsLink(fs, dl) /\ fs[dl].d = out
                /\ IsLink(fs, ol) /\ fs[ol].d = Components(others[i])

\* C8: the input dataset tree is the same before, during and after the
\* processing of a unit.
C8_InputTreeUntouched ==
    [q \in {p \in DOMAIN fs : IsAtOrUnder(p, InputDir)} |-> fs[q]]
        = InputTree(SubjIdOf(subj_input_dir), SessIdOf(sess_dir))

\* C10: after reorganize_into_bids: without no-clean there is no work_dir
\* under the unit's anat directory; with no-clean work_dir exists and holds
\* the renamed working directory (afni_workdir_<prefix>) and the QC
\* directories that were in the anat directory.
C10_ArchivalCleanup ==
    pc = "done" =>
        LET wd == Append(UnitAnatDir, WorkDirName)
        IN  /\ ~no_clean => ~Exists(fs, wd)
            /\ no_clean =>
                  /\ IsDir(fs, wd)
                  /\ workdir_list # {} =>
                        /\ IsDir(fs, Append(wd, <<"afni", US, "workdir", US>> \o PrefixOf(NameOf(primary))))
                        /\ IsDir(fs, Append(wd, QCDirName(PrefixOf(NameOf(primary)))))
                        /\ Children(fs, UnitAnatDir) \cap
                              {q \in DOMAIN fs : EndsWith(NameOf(q), <<"QC">>)} = {}


\* C9: the driver processes start_swarm_job generates, one per subject,
\* write (create, or open for writing) pairwise disjoint sets of paths
\* under the output root.
SwarmJobs == (DOMAIN proc) \ {0}
C9_DisjointWrites ==
    \A p, q \in SwarmJobs : p # q => proc[p].written \cap proc[q].written = {}

\* C11: the failure records deface_primary_scan returns for a unit hold
\* only the prefix of a primary whose defacing left no working directory:
\* one entry, the prefix, in that case, and no entry at all (no empty and
\* no null entry) for a unit whose working directory was found.
C11_FailureRecordsArePrefixes ==
    pc = "done" =>
        missing_refacer_outputs =
            IF primary # None /\ workdir_list = {} THEN << PrefixOf(NameOf(primary)) >> ELSE <<>>

\* C12: an invocation with a session ID and no subject ID ends in get_args
\* with an error: the process never gets past get_args, so it reads no
\* Mapping, resolves no unit, creates no output directory or swarm file,
\* writes nothing and starts no other process.
C12_SessionWithoutSubjectRejected ==
    \A p \in DOMAIN proc :
        (proc[p].subj_id = <<>> /\ proc[p].sess_id # <<>>) =>
            /\ proc[p].pc \in {"get_args", "raised"}
            /\ proc[p].written = {}
            /\ proc[p].subj_sess_list = <<>>
            /\ DOMAIN proc = {p}
            /\ ~Exists(fs, BidsDefacedOutdir)
            /\ ~Exists(fs, SwarmFile)
C12_Witness ==
    /\ 0 \in DOMAIN proc
    /\ proc[0].subj_id = <<>> /\ proc[0].sess_id # <<>>
    /\ proc[0].pc = "raised"

\* C13: a driver process that resolved a list of units and has ended has
\* called deface_primary_scan once for every unit of the list, whatever
\* the earlier units' outcome, and has then written the failure report.
C13_DriverProcessesEveryUnit ==
    \A p \in DOMAIN proc :
        (proc[p].pc \in {"done", "raised"} /\ proc[p].subj_sess_list # <<>>) =>
            /\ proc[p].called = Len(proc[p].subj_sess_list)
            /\ FailureReport \in proc[p].written

UnitsOfSubject(subj_dir) ==
    IF HasSessions(mapping_dict[NameOf(subj_dir)])
    THEN {<<subj_dir, Append(subj_dir, k)>> : k \in DOMAIN mapping_dict[NameOf(subj_dir)]}
    ELSE {<<subj_dir, None>>}
ExpectedUnits(p) ==
    IF proc[p].subj_id # <<>> /\ proc[p].sess_id = <<>>
    THEN UnitsOfSubject(Append(InputDir, proc[p].subj_id))
    ELSE IF proc[p].subj_id # <<>>
    THEN {<<Append(InputDir, proc[p].subj_id), InputDir \o <<proc[p].subj_id, proc[p].sess_id>> >>}
    ELSE UNION {UnitsOfSubject(d) : d \in SubjDirs(fs)}

\* C16: the list of units main resolves holds no unit twice and is: for a
\* subject alone, one unit per session the Mapping has for it, or the one
\* unit (subject, no session) when the Mapping has no sessions for it; for
\* a subject and a session, that one unit; for neither, the same as for a
\* subject alone, for every subject directory of the input root.
C16_UnitsResolvedOnce ==
    \A p \in DOMAIN proc :
        proc[p].pc = "loop" =>
            LET l == proc[p].subj_sess_list
            IN  /\ \A i, j \in 1..Len(l) : i # j => l[i] # l[j]
                /\ {l[i] : i \in 1..Len(l)} = ExpectedUnits(p)

AcqEntityLabel(name) ==
    LET hits == SelectSeq(Split(name, US), LAMBDA e : StartsWith(e, <<"acq", DASH>>))
    IN  IF hits = <<>> THEN <<>> ELSE Split(hits[1], DASH)[2]

\* C17: the output subdirectory run_afni_refacer creates for a primary is
\* <output_root>/<subject>/<session>/anat/<acq>, <acq> being the label of
\* the acq- entity of the primary's filename wherever it stands among the
\* underscore-delimited tokens, and empty when the filename has none.
C17_AcqSubdirectory ==
    subj_output_dir # None =>
        /\ subj_output_dir =
              UnitAnatDir \o (IF AcqEntityLabel(NameOf(primary)) = <<>> THEN <<>>
                              ELSE << AcqEntityLabel(NameOf(primary)) >>)
        /\ IsDir(fs, subj_output_dir)

OtherOutdir(o) == Append(new_afni_workdir, PrefixOf(NameOf(OtherFullPath(subj_input_dir, o))))
WrittenBetween(f, g) ==
    {q \in DOMAIN g : q \notin DOMAIN f \/ g[q] # f[q]} \cup ((DOMAIN f) \ (DOMAIN g))

\* C19: within one call of register_to_primary_scan the face-mask is
\* derived exactly once, before the first secondary's command; and the
\* step of a secondary creates, changes or removes only paths inside that
\* secondary's own subdirectory of the working directory, a directory that
\* holds neither the face-mask nor another secondary's subdirectory.
C19_MaskDerivedOnceReadOnly ==
    /\ [](/\ Len(CmdsOf("facemask")) <= 1
          /\ CmdsOf("register") # <<>> => Len(CmdsOf("facemask")) = 1
          /\ pc = "register_loop" =>
                \A i, j \in 1..Len(all_others) :
                    /\ ~IsAtOrUnder(DefacemaskPath(Append(new_afni_workdir, RawFacemaskName)),
                                    OtherOutdir(all_others[i]))
                    /\ i # j => ~IsAtOrUnder(OtherOutdir(all_others[j]), OtherOutdir(all_others[i])))
    /\ [][(pc = "register_loop" /\ todo # <<>>) =>
              \A q \in WrittenBetween(fs, fs') : IsAtOrUnder(q, OtherOutdir(Head(todo)))]_vars
C19_Witness ==
    /\ Len(CmdsOf("facemask")) = 1 /\ Len(CmdsOf("register")) = 2
    /\ t1_mask # None /\ IsFile(fs, t1_mask) /\ fs[t1_mask] = FileNode(<< <<"defacemask">> >>)
    /\ \A i \in 1..2 : IsFile(fs, Components(CmdsOf("register")[i].c))

\* ============================================ single calls of the functions
\* compress_to_gz, vqcdeface_prep and rename_afni_workdir called, in any
\* order, on the anat directory of an output tree as the defacing tool
\* left it, with or without entries left there by earlier runs.
MaxCalls == 3

CallSubj == <<"sub", DASH, SubjectLabels[1]>>
CallAnatDir == UnitDir(BidsDefacedOutdir, CallSubj, <<>>) \o <<AnatName>>
CallPrimary == ScanPath(CallSubj, <<>>, <<"T1w">>)
CallOutputs ==
    {Append(CallAnatDir, ScanName(CallSubj, <<>>, st)) : st \in {<<"T1w">>, <<"T2w">>}}

\* what an earlier run can have left in the directory: the working
\* directory of another scan, the pipeline's log, a volume of another name
StaleWorkdir == Append(CallAnatDir, WorkdirName(PrefixOf(ScanName(CallSubj, <<>>, <<"T2w">>))))
StaleLog == Append(CallAnatDir, <<"defacing", US, "pipeline", DOT, "log">>)
StaleVolume == Append(CallAnatDir, <<"old">> \o NiiGz)
StaleEntries == {StaleWorkdir, StaleLog, StaleVolume}
WithStale(f, entries) ==
    LET f1 == IF StaleWorkdir \in entries
              THEN Put(Mkdir(f, StaleWorkdir), Append(StaleWorkdir, ResultName),
                       FileNode(<< <<"defaced">>, <<"stale">> >>))
              ELSE f
        f2 == IF StaleLog \in entries THEN Put(f1, StaleLog, FileNode(<< <<"log">> >>)) ELSE f1
    IN  IF StaleVolume \in entries THEN Put(f2, StaleVolume, FileNode(<< <<"stale">> >>)) ELSE f2

callIdleVars == <<cmds, tool_failed, pc, subj_input_dir, sess_dir, mapping_dict, mode, no_clean,
                  nih_hpc, primary_t1, others, primary, all_others, subj_output_dir, workdir_list,
                  new_afni_workdir, t1_mask, todo, missing_refacer_outputs, reorganized, proc>>

CallInit ==
    /\ \E entries \in SUBSET StaleEntries :
         fs = WithStale(AfniRefacerRun(Mkdir(InputTree(CallSubj, <<>>), CallAnatDir),
                                       PathStr(CallPrimary),
                                       PathStr(Append(CallAnatDir, PrefixOf(NameOf(CallPrimary)))),
                                       TRUE),
                        entries)
    /\ calls = <<>>
    /\ proc = <<>>
    /\ mapping_dict = [s \in {CallSubj} |-> MapEntry(CallPrimary, <<>>)]
    /\ cmds = <<>>
    /\ tool_failed = FALSE
    /\ pc = "idle"
    /\ subj_input_dir = None
    /\ sess_dir = None
    /\ mode = "standard"
    /\ no_clean = FALSE
    /\ nih_hpc = FALSE
    /\ primary_t1 = None
    /\ others = <<>>
    /\ primary = None
    /\ all_others = <<>>
    /\ subj_output_dir = None
    /\ workdir_list = {}
    /\ new_afni_workdir = None
    /\ t1_mask = None
    /\ todo = <<>>
    /\ missing_refacer_outputs = <<>>
    /\ reorganized = 0

CallRecord(op, a, b, err, before, after) ==
    [op |-> op, a |-> a, b |-> b, err |-> err, before |-> before, after |-> after]

\* compress_to_gz(input_file, output_file) on a volume of the directory
CallCompressToGz ==
    /\ Len(calls) < MaxCalls
    /\ \E input_file \in {q \in Descendants(fs, CallAnatDir) :
                             IsFile(fs, q) /\ Contains(NameOf(q), <<"nii">>)},
          output_file \in CallOutputs :
         /\ fs' = compress_to_gz(fs, input_file, output_file)
         /\ calls' = Append(calls, CallRecord("compress_to_gz", input_file, output_file, FALSE, fs, fs'))
    /\ UNCHANGED callIdleVars

\* vqcdeface_prep(bids_input_dir, defaced_anat_dir, bids_defaced_outdir)
CallVqcdefacePrep ==
    /\ Len(calls) < MaxCalls
    /\ LET r == vqcdeface_prep(fs, InputDir, CallAnatDir, BidsDefacedOutdir)
       IN  /\ fs' = r.f
           /\ calls' = Append(calls, CallRecord("vqcdeface_prep", CallAnatDir, <<>>, r.err, fs, r.f))
    /\ UNCHANGED callIdleVars

\* rename_afni_workdir(workdir_list[0]) on an entry the glob finds
CallRenameAfniWorkdir ==
    /\ Len(calls) < MaxCalls
    /\ \E w \in WorkdirList(fs, CallAnatDir) :
         LET r == rename_afni_workdir(fs, w)
         IN  /\ fs' = r.f
             /\ calls' = Append(calls, CallRecord("rename_afni_workdir", w, <<>>, r.err, fs, r.f))
    /\ UNCHANGED callIdleVars

CallNext ==
    \/ CallCompressToGz
    \/ CallVqcdefacePrep
    \/ CallRenameAfniWorkdir

CallSpec == CallInit /\ [][CallNext]_vars

\* C14: a second call of compress_to_gz with the destination of the call
\* before it, whatever its input file, leaves the destination's content as
\* the first call left it.
C14_CompressIdempotent ==
    \A i \in 1..(Len(calls) - 1) :
        (/\ calls[i].op = "compress_to_gz" /\ calls[i + 1].op = "compress_to_gz"
         /\ calls[i].b = calls[i + 1].b) =>
            /\ Exists(calls[i + 1].after, calls[i].b)
            /\ calls[i + 1].after[calls[i].b] = calls[i].after[calls[i].b]
C14_Witness ==
    \E i \in 1..(Len(calls) - 1) :
        /\ calls[i].op = "compress_to_gz" /\ calls[i + 1].op = "compress_to_gz"
        /\ calls[i].b = calls[i + 1].b
        /\ ~Exists(calls[i].before, calls[i].b)
        /\ calls[i].before[calls[i].a] # calls[i + 1].before[calls[i + 1].a]
        /\ calls[i + 1].after[calls[i].b] = FileNode(<< <<"gz">> >> \o calls[i].before[calls[i].a].d)

\* C15: vqcdeface_prep run again on a directory it has just staged without
\* error raises no error and changes nothing: the defaced.nii.gz and
\* orig.nii.gz links and their targets stay, and no link is added.
C15_VqcPrepIdempotent ==
    \A i \in 1..(Len(calls) - 1) :
        (/\ calls[i].op = "vqcdeface_prep" /\ calls[i + 1].op = "vqcdeface_prep"
         /\ ~calls[i].err) =>
            /\ ~calls[i + 1].err
            /\ calls[i + 1].after = calls[i].after
C15_Witness ==
    \E i \in 1..(Len(calls) - 1) :
        /\ calls[i].op = "vqcdeface_prep" /\ calls[i + 1].op = "vqcdeface_prep"
        /\ ~calls[i].err /\ ~calls[i + 1].err
        /\ LET qc == QCDirOf(NameOf(CallPrimary))
           IN  /\ ~Exists(calls[i].before, qc)
               /\ IsLink(fs, Append(qc, <<"defaced">> \o NiiGz))
               /\ fs[Append(qc, <<"defaced">> \o NiiGz)].d = Append(CallAnatDir, NameOf(CallPrimary))
               /\ IsLink(fs, Append(qc, <<"orig">> \o NiiGz))
               /\ fs[Append(qc, <<"orig">> \o NiiGz)].d = CallPrimary

\* C18: rename_afni_workdir, called on an entry the *work_refacer* glob
\* finds, raises nothing; of the other entries of the parent exactly those
\* whose names end in QC or defacing_pipeline.log are left; the working
\* directory is afterwards workdir_<second dot-delimited segment> in the
\* same parent, with everything it held.
C18_RenameSparesOnlyWorkdir ==
    \A i \in 1..Len(calls) :
        calls[i].op = "rename_afni_workdir" =>
            LET b == calls[i].before
                g == calls[i].after
                w == calls[i].a
                new == Append(Parent(w), <<"workdir", US>> \o Split(NameOf(w), DOT)[2])
                Spared(q) == \E suf \in RequiredFileSuffixes : EndsWith(NameOf(q), suf)
            IN  /\ ~calls[i].err
                /\ \A q \in Children(b, Parent(w)) \ {w, new} : Exists(g, q) <=> Spared(q)
                /\ ~Exists(g, w)
                /\ IsDir(g, new)
                /\ \A q \in Descendants(b, w) :
                      LET q2 == new \o SubSeq(q, Len(w) + 1, Len(q))
                      IN  Exists(g, q2) /\ g[q2] = b[q]

=============================================================================
